---- MODULE Spec2Model ----
(***************************************************************************)
(* The dap registry of dapla_server: discovery of daps on disk, the        *)
(* administrative requests GET /dapla/daps and POST /dapla/dap, settings   *)
(* persistence and the load/unload of module instances, with every         *)
(* registry access serialized by the DapsService lock.                     *)
(***************************************************************************)
EXTENDS Naturals, Sequences, FiniteSets, TLC

VARIABLES
    disk,       \* per directory name: the dap directory and its settings.toml
    daps,       \* the registry: name -> in-memory DapSettings of the Dap
    inst,       \* per name: Some(id) of the held module instance, or None
    nextInst,   \* id the next created Instance gets
    logged,     \* names whose settings load error Dap::new logged
    surfaced,   \* names whose construction returned an error to its caller
    lock,       \* holder of the DapsService mutex, or Free
    pc,         \* per client: position of its request in handle_http
    req,        \* per client: the request being handled
    resp,       \* per client: the response of its last operation
    started,    \* HTTP workers whose application factory has run load_daps
    issued,     \* requests issued so far
    writes,     \* settings files written so far
    pre         \* registry, disk and instances as the lock holder found them

vars == <<disk, daps, inst, nextInst, logged, surfaced, lock, pc, req, resp,
          started, issued, writes, pre>>

----------------------------------------------------------------------------
(* Bounds *)

MaxRequests == 2

----------------------------------------------------------------------------
(* Names and values *)

main_name == "dapla"

DapNames == {"alpha", "beta"}

Names == DapNames \cup {main_name}

Clients == {"c1", "c2"}

(* HttpServer::new runs its application factory once in every worker. *)
HttpWorkers == {"w1", "w2"}

Free == "free"

None == <<>>

Some(v) == <<v>>

Option(S) == {None} \cup {Some(v) : v \in S}

is_main(name) == name = main_name

(* Permission: the capability tokens a dap may require or be allowed. *)
Permissions == {"fs", "net"}

(* DapSettings: application.enabled, application.title,                   *)
(* permissions.required and permissions.allowed.                          *)
DefaultSettings == [enabled |-> FALSE, title |-> "",
                    required |-> {}, allowed |-> {}]

AppTitle == "app"

Titles == {"", AppTitle}

AllSettings == [enabled : BOOLEAN, title : Titles,
                required : SUBSET Permissions, allowed : SUBSET Permissions]

(* A settings.toml document: every key may be omitted. *)
Docs == [enabled : Option(BOOLEAN), title : Option(Titles),
         required : Option(SUBSET Permissions),
         allowed : Option(SUBSET Permissions)]

EmptyDoc == [enabled |-> None, title |-> None,
             required |-> None, allowed |-> None]

(* What a dap directory holds: no directory at all, a directory without   *)
(* settings.toml, one with an unparseable settings.toml, or one with a    *)
(* settings document.                                                     *)
NoDir == [kind |-> "nodir", doc |-> EmptyDoc]

AbsentFile == [kind |-> "absent", doc |-> EmptyDoc]

CorruptFile == [kind |-> "corrupt", doc |-> EmptyDoc]

DocFile(doc) == [kind |-> "doc", doc |-> doc]

(* Deserialization: a missing key falls back to the type default. *)
ParseDocDroppingAllowed(doc) ==
    [enabled  |-> IF doc.enabled = None THEN DefaultSettings.enabled
                  ELSE doc.enabled[1],
     title    |-> IF doc.title = None THEN DefaultSettings.title
                  ELSE doc.title[1],
     required |-> IF doc.required = None THEN DefaultSettings.required
                  ELSE doc.required[1],
     allowed  |-> DefaultSettings.allowed]

ParseDoc(doc) ==
    [enabled  |-> IF doc.enabled = None THEN DefaultSettings.enabled
                  ELSE doc.enabled[1],
     title    |-> IF doc.title = None THEN DefaultSettings.title
                  ELSE doc.title[1],
     required |-> IF doc.required = None THEN DefaultSettings.required
                  ELSE doc.required[1],
     allowed  |-> IF doc.allowed = None THEN DefaultSettings.allowed
                  ELSE doc.allowed[1]]

(* Serialization writes every key. *)
SerializeSettings(s) ==
    [enabled |-> Some(s.enabled), title |-> Some(s.title),
     required |-> Some(s.required), allowed |-> Some(s.allowed)]

(* DapSettings::load(path) *)
LoadSettings(file) ==
    IF file.kind = "doc"
    THEN [ok |-> TRUE, err |-> "none", settings |-> ParseDoc(file.doc)]
    ELSE IF file.kind = "corrupt"
    THEN [ok |-> FALSE, err |-> "ParseError", settings |-> DefaultSettings]
    ELSE [ok |-> FALSE, err |-> "NotFound", settings |-> DefaultSettings]

(* Dap::reload_settings: on Ok the settings are replaced, on Err the `?`  *)
(* returns before set_settings.                                           *)
reload_settings(settings, file) ==
    LET r == LoadSettings(file)
    IN  IF r.ok THEN [err |-> "none", settings |-> r.settings]
        ELSE [err |-> r.err, settings |-> settings]

(* Dap::new returns Self: the error of reload_settings is logged and the  *)
(* dap keeps the default settings it was constructed with.  err is what   *)
(* the caller gets besides the dap: never an error.                       *)
DapNewCorruptAsParsed(name, file) ==
    IF is_main(name)
    THEN [settings |-> DefaultSettings, logged |-> FALSE, err |-> "none"]
    ELSE IF file.kind = "corrupt"
    THEN [settings |-> [DefaultSettings EXCEPT !.enabled = TRUE],
          logged |-> FALSE, err |-> "none"]
    ELSE LET r == reload_settings(DefaultSettings, file)
         IN  [settings |-> r.settings, logged |-> r.err # "none", err |-> "none"]

DapNewSilentAbsent(name, file) ==
    IF is_main(name)
    THEN [settings |-> DefaultSettings, logged |-> FALSE, err |-> "none"]
    ELSE LET r == reload_settings(DefaultSettings, file)
         IN  [settings |-> r.settings, logged |-> r.err = "ParseError",
              err |-> "none"]

DapNew(name, file) ==
    IF is_main(name)
    THEN [settings |-> DefaultSettings, logged |-> FALSE, err |-> "none"]
    ELSE LET r == reload_settings(DefaultSettings, file)
         IN  [settings |-> r.settings, logged |-> r.err # "none", err |-> "none"]

(* Dap::instantiate: fs::read of the module file, Module::new and         *)
(* Instance::new may each fail.  The main dap is the platform's own       *)
(* client and ships no dapla_server.wasm, so its fs::read fails.          *)
InstantiateOutcomes(name) ==
    IF is_main(name) THEN {"read_failed"}
    ELSE {"ok", "read_failed", "instantiate_failed"}

----------------------------------------------------------------------------
(* Requests and responses *)

(* A request may name any dap directory name; a name without a directory *)
(* is unknown to the registry.                                            *)
RequestNames == Names

ListRequest == [kind |-> "list", dap_name |-> "", enabled |-> None]

MalformedRequest == [kind |-> "malformed", dap_name |-> "", enabled |-> None]

UpdateRequests == [kind : {"update"}, dap_name : RequestNames,
                   enabled : Option(BOOLEAN)]

Requests == {ListRequest, MalformedRequest} \cup UpdateRequests

NoRequest == [kind |-> "none", dap_name |-> "", enabled |-> None]

NoResponse == [status |-> "none", updated |-> None, listing |-> <<>>]

ErrorResponse(kind) == [status |-> kind, updated |-> None, listing |-> <<>>]

UpdatedResponse(updated) == [status |-> "ok", updated |-> updated, listing |-> <<>>]

DapsResponse(listing) == [status |-> "ok", updated |-> None, listing |-> listing]

----------------------------------------------------------------------------
(* Pure parts of the handlers *)

(* Byte order of the names, as str::cmp orders them. *)
NameRank == [n \in Names |->
                IF n = "alpha" THEN 1 ELSE IF n = "beta" THEN 2 ELSE 3]

NameLess(a, b) == NameRank[a] < NameRank[b]

RECURSIVE SortByName(_)
SortByName(S) ==
    IF S = {} THEN <<>>
    ELSE LET first == CHOOSE a \in S : \A b \in S \ {a} : NameLess(a, b)
         IN  <<first>> \o SortByName(S \ {first})

(* get_daps: every dap of the registry that is not the main dap, sorted   *)
(* by name, as serialized from the registry at that moment.               *)
ListingOfWithMain(registry) ==
    LET names == SortByName(DOMAIN registry)
    IN  [i \in 1..Len(names) |->
            [name |-> names[i], enabled |-> registry[names[i]].enabled]]

ListingOf(registry) ==
    LET names == SortByName({n \in DOMAIN registry : ~is_main(n)})
    IN  [i \in 1..Len(names) |->
            [name |-> names[i], enabled |-> registry[names[i]].enabled]]

(* Dap::update: the flag is flipped only when the query carries a value   *)
(* that differs from the current one.                                     *)
NeedsFlipAlways(current, enabled) == enabled # None

NeedsFlip(current, enabled) == enabled # None /\ current # enabled[1]

(* Dap::set_enabled *)
set_enabled_negated(settings, enabled) == [settings EXCEPT !.enabled = ~enabled]

set_enabled_resetting(settings, enabled) ==
    [DefaultSettings EXCEPT !.enabled = enabled]

set_enabled(settings, enabled) == [settings EXCEPT !.enabled = enabled]

(* update_dap after a change of enabled: load when the dap is now         *)
(* enabled, unload otherwise.                                             *)
LifecycleNeverUnload(enabledNow) == "load"

Lifecycle(enabledNow) == IF enabledNow THEN "load" ELSE "unload"

(* DapsManager::load stores the instance that instantiate returned; when *)
(* instantiate fails it leaves the dap Unloaded.                          *)
ManagerLoad(instances, name, outcome, id) ==
    IF outcome = "ok" THEN [instances EXCEPT ![name] = Some(id)]
    ELSE [instances EXCEPT ![name] = None]

(* DapsManager::unload drops any held instance. *)
ManagerUnload(instances, name) == [instances EXCEPT ![name] = None]

(* DapsManager::load_daps: one Dap per subdirectory of the daps path; a   *)
(* dap whose construction fails is skipped.                               *)
DapDirs(d) == {n \in Names : d[n].kind # "nodir"}

RegistryOf(d) ==
    LET registered == {n \in DapDirs(d) : DapNew(n, d[n]).err = "none"}
    IN  [n \in registered |-> DapNew(n, d[n]).settings]

LoggedOf(d) == {n \in DapDirs(d) : DapNew(n, d[n]).logged}

SurfacedOf(d) == {n \in DapDirs(d) : DapNew(n, d[n]).err # "none"}

(* load_daps loads the daps that are enabled at discovery. *)
LoadableEager(registry) == DOMAIN registry

Loadable(registry) ==
    {n \in DOMAIN registry : registry[n].enabled /\ ~is_main(n)}

InstancesOf(loaded, firstId) ==
    [n \in Names |->
        IF n \in loaded
        THEN Some(firstId + Cardinality({m \in loaded : NameLess(m, n)}))
        ELSE None]

(* update_dap: `load(dap_name)?` passes the error of the load on, and the *)
(* Ok response reports the change.                                        *)
LoadResultIgnoringError(outcome, enabledNow) == UpdatedResponse(Some(enabledNow))

LoadResult(outcome, enabledNow) ==
    IF outcome = "ok" THEN UpdatedResponse(Some(enabledNow))
    ELSE ErrorResponse("ModuleError")

Snapshot == [daps |-> daps, disk |-> disk, inst |-> inst,
             nextInst |-> nextInst, writes |-> writes]

----------------------------------------------------------------------------
(* Initial state: the daps directory as found on disk, the registry of    *)
(* DapsService::new still to be filled by the first load_daps.            *)

InitDocs == { [enabled |-> Some(e), title |-> Some(AppTitle),
               required |-> Some({"fs"}), allowed |-> Some(Permissions)] :
              e \in BOOLEAN }

(* alpha's directory exists, with or without a readable settings.toml;   *)
(* beta's directory may be missing, and its settings.toml is well-formed. *)
InitFiles(n) ==
    IF is_main(n) THEN {AbsentFile}
    ELSE IF n = "alpha"
    THEN {AbsentFile, CorruptFile} \cup {DocFile(d) : d \in InitDocs}
    ELSE {NoDir} \cup {DocFile(d) : d \in InitDocs}

InitDisks == { d \in [Names -> UNION {InitFiles(n) : n \in Names}] :
                 \A n \in Names : d[n] \in InitFiles(n) }

Init ==
    /\ disk \in InitDisks
    /\ daps = <<>>
    /\ inst = [n \in Names |-> None]
    /\ nextInst = 1
    /\ logged = {}
    /\ surfaced = {}
    /\ lock = Free
    /\ pc = [p \in Clients |-> "idle"]
    /\ req = [p \in Clients |-> NoRequest]
    /\ resp = [p \in Clients |-> NoResponse]
    /\ started = {}
    /\ issued = 0
    /\ writes = 0
    /\ pre = [daps |-> <<>>, disk |-> disk, inst |-> [n \in Names |-> None],
              nextInst |-> 1, writes |-> 0]

----------------------------------------------------------------------------
(* The application factory: lock the manager and load_daps.               *)

LoadDaps(w) ==
    /\ lock = Free
    /\ w \notin started
    /\ daps' = RegistryOf(disk)
    /\ logged' = LoggedOf(disk)
    /\ surfaced' = SurfacedOf(disk)
    /\ \E loaded \in SUBSET Loadable(RegistryOf(disk)) :
         /\ \A n \in loaded : "ok" \in InstantiateOutcomes(n)
         /\ inst' = InstancesOf(loaded, nextInst)
         /\ nextInst' = nextInst + Cardinality(loaded)
    /\ started' = started \cup {w}
    /\ UNCHANGED <<disk, lock, pc, req, resp, issued, writes, pre>>

----------------------------------------------------------------------------
(* A client sends GET /dapla/daps or POST /dapla/dap.                     *)

Issue(p) ==
    /\ pc[p] = "idle"
    /\ started # {}
    /\ issued < MaxRequests
    /\ \E r \in Requests : req' = [req EXCEPT ![p] = r]
    /\ pc' = [pc EXCEPT ![p] = "waiting"]
    /\ resp' = [resp EXCEPT ![p] = NoResponse]
    /\ issued' = issued + 1
    /\ UNCHANGED <<disk, daps, inst, nextInst, logged, surfaced, lock,
                   started, writes, pre>>

(* handle_http: exclusive access to the manager for the operation. *)
AcquireUnguarded(p) ==
    /\ pc[p] = "waiting"
    /\ lock' = p
    /\ pc' = [pc EXCEPT ![p] = "locked"]
    /\ pre' = Snapshot
    /\ UNCHANGED <<disk, daps, inst, nextInst, logged, surfaced, req, resp,
                   started, issued, writes>>

Acquire(p) ==
    /\ pc[p] = "waiting"
    /\ lock = Free
    /\ lock' = p
    /\ pc' = [pc EXCEPT ![p] = "locked"]
    /\ pre' = Snapshot
    /\ UNCHANGED <<disk, daps, inst, nextInst, logged, surfaced, req, resp,
                   started, issued, writes>>

(* handle_http once the operation returned: the manager is released and  *)
(* the client gets the Ok response or the failure response built from the *)
(* Err.                                                                   *)
FinishHoldingOnErr(p, response) ==
    /\ resp' = [resp EXCEPT ![p] = response]
    /\ pc' = [pc EXCEPT ![p] = "idle"]
    /\ lock' = IF response.status = "ok" THEN Free ELSE lock

Finish(p, response) ==
    /\ resp' = [resp EXCEPT ![p] = response]
    /\ pc' = [pc EXCEPT ![p] = "idle"]
    /\ lock' = Free

(* get_daps *)
GetDaps(p) ==
    /\ pc[p] = "locked"
    /\ req[p].kind = "list"
    /\ Finish(p, DapsResponse(ListingOf(daps)))
    /\ UNCHANGED <<disk, daps, inst, nextInst, logged, surfaced, req,
                   started, issued, writes, pre>>

(* DapsManager::dap_mut: the dap registered under the name, or NotFound. *)
dap_mut_unchecked(registry, name) == "found"

dap_mut(registry, name) ==
    IF name \in DOMAIN registry THEN "found" ELSE "NotFound"

(* update_dap: parse the body, look the dap up. *)
ParseLookup(p) ==
    /\ pc[p] = "locked"
    /\ req[p].kind # "list"
    /\ IF req[p].kind = "malformed"
       THEN Finish(p, ErrorResponse("RequestError"))
       ELSE IF dap_mut(daps, req[p].dap_name) # "found"
       THEN Finish(p, ErrorResponse(dap_mut(daps, req[p].dap_name)))
       ELSE /\ pc' = [pc EXCEPT ![p] = "update"]
            /\ UNCHANGED <<resp, lock>>
    /\ UNCHANGED <<disk, daps, inst, nextInst, logged, surfaced, req,
                   started, issued, writes, pre>>

(* Dap::update up to set_enabled, or its Ok(false). *)
UpdateFlip(p) ==
    /\ pc[p] = "update"
    /\ LET n == req[p].dap_name
       IN  IF NeedsFlip(daps[n].enabled, req[p].enabled)
           THEN /\ daps' = [daps EXCEPT ![n] = set_enabled(@, req[p].enabled[1])]
                /\ pc' = [pc EXCEPT ![p] = "save"]
                /\ UNCHANGED <<resp, lock>>
           ELSE /\ daps' = daps
                /\ Finish(p, UpdatedResponse(None))
    /\ UNCHANGED <<disk, inst, nextInst, logged, surfaced, req,
                   started, issued, writes, pre>>

(* Dap::update after set_enabled: `self.save_settings()?; return Ok(true)` *)
(* -- the Err of save_settings is the result of the update.               *)
UpdateResultSwallowingError(saved) == "changed"

UpdateResult(saved) == IF saved THEN "changed" ELSE "SettingsError"

(* Dap::update: save_settings()? and Ok(true); update_dap's `?` on it. *)
UpdateSave(p) ==
    /\ pc[p] = "save"
    /\ LET n == req[p].dap_name
       IN  \E saved \in BOOLEAN :
             /\ IF saved
                THEN /\ disk' = [disk EXCEPT
                                   ![n] = DocFile(SerializeSettings(daps[n]))]
                     /\ writes' = writes + 1
                ELSE /\ disk' = disk
                     /\ writes' = writes
             /\ IF UpdateResult(saved) = "changed"
                THEN /\ pc' = [pc EXCEPT ![p] = "lifecycle"]
                     /\ UNCHANGED <<resp, lock>>
                ELSE Finish(p, ErrorResponse(UpdateResult(saved)))
    /\ UNCHANGED <<daps, inst, nextInst, logged, surfaced, req,
                   started, issued, pre>>

(* update_dap after Ok(changed): load or unload, then the response. *)
LoadOrUnload(p) ==
    /\ pc[p] = "lifecycle"
    /\ LET n == req[p].dap_name
       IN  IF Lifecycle(daps[n].enabled) = "load"
           THEN \E outcome \in InstantiateOutcomes(n) :
                  /\ inst' = ManagerLoad(inst, n, outcome, nextInst)
                  /\ nextInst' = IF outcome = "ok" THEN nextInst + 1 ELSE nextInst
                  /\ Finish(p, LoadResult(outcome, daps[n].enabled))
           ELSE /\ inst' = ManagerUnload(inst, n)
                /\ nextInst' = nextInst
                /\ Finish(p, UpdatedResponse(Some(daps[n].enabled)))
    /\ UNCHANGED <<disk, daps, logged, surfaced, req, started, issued,
                   writes, pre>>

Next ==
    \/ \E w \in HttpWorkers : LoadDaps(w)
    \/ \E p \in Clients : Issue(p)
    \/ \E p \in Clients : Acquire(p)
    \/ \E p \in Clients : GetDaps(p)
    \/ \E p \in Clients : ParseLookup(p)
    \/ \E p \in Clients : UpdateFlip(p)
    \/ \E p \in Clients : UpdateSave(p)
    \/ \E p \in Clients : LoadOrUnload(p)

Spec == Init /\ [][Next]_vars

----------------------------------------------------------------------------
(* Two update requests for two different registered daps, sent at the     *)
(* same time to a server whose workers have started; every request that   *)
(* can take a step eventually takes it.                                   *)

ConcurrentRequests ==
    { r \in [Clients -> UpdateRequests] :
        /\ \A p \in Clients : r[p].enabled # None
        /\ \A p, q \in Clients : p # q => r[p].dap_name # r[q].dap_name }

InitConcurrent ==
    /\ disk \in InitDisks
    /\ daps = RegistryOf(disk)
    /\ logged = LoggedOf(disk)
    /\ surfaced = SurfacedOf(disk)
    /\ \E loaded \in SUBSET Loadable(RegistryOf(disk)) :
         /\ inst = InstancesOf(loaded, 1)
         /\ nextInst = 1 + Cardinality(loaded)
    /\ lock = Free
    /\ pc = [p \in Clients |-> "waiting"]
    /\ req \in { r \in ConcurrentRequests :
                   \A p \in Clients : r[p].dap_name \in DOMAIN RegistryOf(disk) }
    /\ resp = [p \in Clients |-> NoResponse]
    /\ started = HttpWorkers
    /\ issued = Cardinality(Clients)
    /\ writes = 0
    /\ pre = [daps |-> <<>>, disk |-> disk, inst |-> [n \in Names |-> None],
              nextInst |-> 1, writes |-> 0]

Handle(p) ==
    \/ Acquire(p)
    \/ ParseLookup(p)
    \/ UpdateFlip(p)
    \/ UpdateSave(p)
    \/ LoadOrUnload(p)

NextConcurrent == \E p \in Clients : Handle(p)

SpecConcurrent ==
    /\ InitConcurrent
    /\ [][NextConcurrent]_vars
    /\ \A p \in Clients : WF_vars(Handle(p))

----------------------------------------------------------------------------
(* The server once its workers have started, with its scheduling: a       *)
(* request waiting for the manager, or holding it, eventually takes its   *)
(* next step.                                                             *)

Serve(p) ==
    \/ Acquire(p)
    \/ GetDaps(p)
    \/ ParseLookup(p)
    \/ UpdateFlip(p)
    \/ UpdateSave(p)
    \/ LoadOrUnload(p)

InitServing ==
    /\ disk \in InitDisks
    /\ daps = RegistryOf(disk)
    /\ logged = LoggedOf(disk)
    /\ surfaced = SurfacedOf(disk)
    /\ \E loaded \in SUBSET Loadable(RegistryOf(disk)) :
         /\ inst = InstancesOf(loaded, 1)
         /\ nextInst = 1 + Cardinality(loaded)
    /\ lock = Free
    /\ pc = [p \in Clients |-> "idle"]
    /\ req = [p \in Clients |-> NoRequest]
    /\ resp = [p \in Clients |-> NoResponse]
    /\ started = HttpWorkers
    /\ issued = 0
    /\ writes = 0
    /\ pre = [daps |-> <<>>, disk |-> disk, inst |-> [n \in Names |-> None],
              nextInst |-> 1, writes |-> 0]

NextServing == \E p \in Clients : Issue(p) \/ Serve(p)

SpecServing ==
    /\ InitServing
    /\ [][NextServing]_vars
    /\ \A p \in Clients : WF_vars(Serve(p))

----------------------------------------------------------------------------
(* The settings of one dap, of any value, set, saved to its settings file *)
(* and loaded back from it.                                               *)

InitSettings ==
    /\ \E s \in AllSettings : daps = [n \in {"alpha"} |-> s]
    /\ disk = [n \in Names |-> IF n = "alpha" THEN AbsentFile ELSE NoDir]
    /\ inst = [n \in Names |-> None]
    /\ nextInst = 1
    /\ logged = {}
    /\ surfaced = {}
    /\ lock = Free
    /\ pc = [p \in Clients |-> "idle"]
    /\ req = [p \in Clients |-> NoRequest]
    /\ resp = [p \in Clients |-> NoResponse]
    /\ started = {}
    /\ issued = 0
    /\ writes = 0
    /\ pre = Snapshot

(* Dap::set_enabled *)
SetEnabled(n, enabled) ==
    /\ daps' = [daps EXCEPT ![n] = set_enabled(@, enabled)]
    /\ UNCHANGED <<disk, inst, nextInst, logged, surfaced, lock, pc, req,
                   resp, started, issued, writes, pre>>

(* Dap::save_settings; pre keeps what was saved. *)
SaveSettings(n) ==
    /\ writes < MaxRequests
    /\ disk' = [disk EXCEPT ![n] = DocFile(SerializeSettings(daps[n]))]
    /\ writes' = writes + 1
    /\ pre' = Snapshot
    /\ UNCHANGED <<daps, inst, nextInst, logged, surfaced, lock, pc, req,
                   resp, started, issued>>

(* Dap::reload_settings *)
ReloadSettings(n) ==
    /\ daps' = [daps EXCEPT ![n] = reload_settings(@, disk[n]).settings]
    /\ UNCHANGED <<disk, inst, nextInst, logged, surfaced, lock, pc, req,
                   resp, started, issued, writes, pre>>

NextSettings ==
    \E n \in DOMAIN daps :
      \/ \E enabled \in BOOLEAN : SetEnabled(n, enabled)
      \/ SaveSettings(n)
      \/ ReloadSettings(n)

SpecSettings == InitSettings /\ [][NextSettings]_vars

----------------------------------------------------------------------------
(* Vocabulary of the properties *)

(* Positions of a request between acquiring and releasing the manager. *)
InOperation == {"locked", "update", "save", "lifecycle"}

Completed(p) == pc[p] = "idle" /\ resp[p] # NoResponse

(* The step is the one that ends p's operation. *)
Finishes(p) == pc[p] \in InOperation /\ pc'[p] = "idle"

Discovers == started' # started

Held(i) == i # None

----------------------------------------------------------------------------
(* C1: whenever no update is in progress, the in-memory enabled flag of   *)
(* every registered dap equals the enabled value of its settings file on  *)
(* disk (a failed persistence restores the flag).                         *)
C1_EnabledMatchesDisk ==
    lock = Free =>
        \A n \in DOMAIN daps :
            disk[n].kind = "doc" =>
                daps[n].enabled = ParseDoc(disk[n].doc).enabled

(* C2: an update whose requested enabled value is absent or equals the    *)
(* current value answers "not changed" and writes nothing to disk during  *)
(* the whole request.                                                     *)
C2_NoChangeNoWrite ==
    [][ \A p \in Clients :
          LET n == req[p].dap_name
          IN  ( /\ pc[p] = "update"
                /\ pc'[p] # "update"
                /\ \/ req[p].enabled = None
                   \/ req[p].enabled = Some(daps[n].enabled) )
              => /\ Finishes(p)
                 /\ resp'[p] = UpdatedResponse(None)
                 /\ writes' = pre.writes
                 /\ disk' = pre.disk
                 /\ daps' = pre.daps
                 /\ inst' = pre.inst ]_vars

(* The second of two update(n, {enabled: true}) in a row reported no      *)
(* change, after the first one changed and persisted the flag.            *)
C2_Witness ==
    \E p, q \in Clients :
        /\ p # q
        /\ Completed(p) /\ Completed(q)
        /\ req[p].kind = "update" /\ req[p].enabled = Some(TRUE)
        /\ req[q] = req[p]
        /\ resp[q] = UpdatedResponse(Some(TRUE))
        /\ resp[p] = UpdatedResponse(None)
        /\ writes = 1

(* C3: two update requests for different daps issued at the same time    *)
(* both complete, and from then on the registry and the disk hold what    *)
(* each of them changed: the requested flag in memory and in the settings *)
(* file of its dap, and the instance of a dap it loaded or unloaded.      *)
Applied(p) ==
    LET n == req[p].dap_name
        v == req[p].enabled[1]
    IN  /\ resp[p].status \in {"ok", "ModuleError"} => daps[n].enabled = v
        /\ resp[p].status = "ok" /\ resp[p].updated # None =>
              /\ resp[p].updated = Some(v)
              /\ disk[n] = DocFile(SerializeSettings(daps[n]))
              /\ Held(inst[n]) <=> v
        /\ resp[p].status = "ModuleError" =>
              disk[n] = DocFile(SerializeSettings(daps[n]))

C3_BothUpdatesApplied ==
    <>[](\A p \in Clients : Completed(p) /\ Applied(p))

(* Both concurrent requests changed their dap and succeeded. *)
C3_Witness ==
    \A p \in Clients :
        /\ Completed(p)
        /\ resp[p] = UpdatedResponse(req[p].enabled)
        /\ daps[req[p].dap_name].enabled = req[p].enabled[1]

(* C4: at most one operation runs against the registry at a time, and     *)
(* while an operation is in progress no other request and no factory      *)
(* changes or enters the registry.                                        *)
C4_MutualExclusion ==
    /\ [](\A p \in Clients : pc[p] \in InOperation <=> lock = p)
    /\ [][ \A p \in Clients :
             (pc[p] \in InOperation /\ pc'[p] = pc[p])
             => /\ <<daps, disk, inst, started>>' = <<daps, disk, inst, started>>
                /\ \A q \in Clients \ {p} : pc'[q] \notin InOperation ]_vars

(* An update has flipped the flag and not yet persisted it while another  *)
(* request waits for the manager.                                         *)
C4_Witness ==
    \E p, q \in Clients :
        /\ pc[p] = "save"
        /\ pc[q] = "waiting"
        /\ daps # pre.daps

(* C5: a successful toggle from enabled to disabled leaves the dap        *)
(* without an instance, and a successful toggle to enabled leaves it with *)
(* an instance created by that request: one no dap held before.           *)
C5_FreshInstance ==
    /\ [](\A n \in Names : Held(inst[n]) => inst[n][1] < nextInst)
    /\ [][ \A p \in Clients :
             LET n == req[p].dap_name
             IN  ( /\ pc[p] = "lifecycle"
                   /\ Finishes(p)
                   /\ resp'[p].status = "ok" )
                 => IF pre.daps[n].enabled
                    THEN /\ resp'[p] = UpdatedResponse(Some(FALSE))
                         /\ inst'[n] = None
                    ELSE /\ resp'[p] = UpdatedResponse(Some(TRUE))
                         /\ Held(inst'[n])
                         /\ inst'[n][1] >= nextInst
                         /\ inst'[n] # pre.inst[n] ]_vars

(* A dap loaded at discovery was disabled by one request and enabled      *)
(* again by the next, and holds another instance than before.             *)
C5_Witness ==
    \E p, q \in Clients :
        /\ p # q
        /\ Completed(p) /\ Completed(q)
        /\ req[p].dap_name = req[q].dap_name
        /\ resp[q] = UpdatedResponse(Some(FALSE))
        /\ resp[p] = UpdatedResponse(Some(TRUE))
        /\ pre.inst[req[p].dap_name] = None
        /\ Held(inst[req[p].dap_name])
        /\ inst[req[p].dap_name][1] > 1

(* C6: outside an operation, a dap holds a module instance only if it is  *)
(* not the main dap and its settings report enabled = true.               *)
C6_LoadedOnlyIfEnabled ==
    lock = Free =>
        \A n \in Names :
            Held(inst[n]) =>
                /\ ~is_main(n)
                /\ n \in DOMAIN daps
                /\ daps[n].enabled

(* C7: no request changes the main dap's enabled flag: it keeps the       *)
(* value the main dap is constructed with.                                *)
C7_MainNeverToggled ==
    main_name \in DOMAIN daps =>
        daps[main_name].enabled = DefaultSettings.enabled

C10_FailedLoadLeavesUnloaded ==
    [][ \A p \in Clients :
          LET n == req[p].dap_name
          IN  ( /\ pc[p] = "lifecycle"
                /\ Finishes(p)
                /\ daps[n].enabled
                /\ nextInst' = nextInst )
              => /\ resp'[p] = ErrorResponse("ModuleError")
                 /\ inst'[n] = None
                 /\ \A m \in Names \ {n} : inst'[m] = inst[m] ]_vars

(* An enable request failed to load its dap while another dap holds its   *)
(* instance.                                                              *)
C10_Witness ==
    \E p \in Clients :
        LET n == req[p].dap_name
        IN  /\ Completed(p)
            /\ resp[p] = ErrorResponse("ModuleError")
            /\ lock = Free
            /\ pre.daps[n].enabled = FALSE
            /\ daps[n].enabled
            /\ inst[n] = None
            /\ \E m \in Names \ {n} : Held(inst[m]) /\ inst[m] = pre.inst[m]

(***************************************************************************)
(* C11: when save_settings fails during an update, the request performs no *)
(* lifecycle transition: the step that fails the save ends the request     *)
(* with the SettingsError response, no load or unload runs (no instance is *)
(* created or dropped), and the daps holding an instance are those that    *)
(* held one when the request acquired the manager.                         *)
(***************************************************************************)
HoldersOf(instances) == { n \in DOMAIN instances : Held(instances[n]) }

SaveFails(p) == pc[p] = "save" /\ pc'[p] # "save" /\ writes' = writes

C11_FailedSaveNoLifecycle ==
    [][\A p \in Clients :
         SaveFails(p) =>
           /\ Finishes(p)
           /\ resp'[p] = ErrorResponse("SettingsError")
           /\ inst' = pre.inst
           /\ nextInst' = pre.nextInst
           /\ HoldersOf(inst') = HoldersOf(pre.inst)]_vars

C11_Witness ==
    \E p \in Clients :
      /\ Completed(p)
      /\ resp[p] = ErrorResponse("SettingsError")
      /\ pre.writes = writes
      /\ inst = pre.inst
      /\ \E n \in DapNames : Held(inst[n]) /\ n # req[p].dap_name
      /\ daps[req[p].dap_name].enabled # pre.daps[req[p].dap_name].enabled

(***************************************************************************)
(* C12: every operation run through handle_http ends in a response and a   *)
(* released manager, whether it returned Ok or Err: the step that ends a   *)
(* request stores an Ok response or one of the failure responses           *)
(* (RequestError, NotFound, SettingsError, ModuleError) and frees the      *)
(* lock; the lock is only ever held by a request inside its operation; and *)
(* every request that was sent -- also one sent after a failed request --  *)
(* eventually acquires the manager and completes.                          *)
(***************************************************************************)
FailureKinds == {"RequestError", "NotFound", "SettingsError", "ModuleError"}

C12_EveryRequestAnswered ==
    /\ [][\A p \in Clients :
            Finishes(p) =>
              /\ lock' = Free
              /\ resp'[p].status \in {"ok"} \cup FailureKinds]_vars
    /\ [](\A p \in Clients : lock = p => pc[p] \in InOperation)
    /\ \A p \in Clients : (pc[p] # "idle") ~> Completed(p)

(* A request failed with each kind of error is followed by a completed one. *)
C12_Witness ==
    \E p, q \in Clients :
      /\ p # q
      /\ Completed(p) /\ resp[p].status \in FailureKinds
      /\ Completed(q) /\ resp[q].status = "ok"
      /\ pre.writes = writes /\ writes = 0
      /\ req[q].kind = "list"
      /\ lock = Free

(***************************************************************************)
(* C13: the listing answered to GET /dapla/daps holds every registered dap *)
(* other than the main dap exactly once, never the main dap, in ascending  *)
(* order of name, each with the enabled flag the registry has while the    *)
(* listing holds the manager (which is the flag it had when the manager    *)
(* was acquired, so the value left by the last update before it).          *)
(***************************************************************************)
Lists(p) == pc[p] = "locked" /\ req[p].kind = "list" /\ pc'[p] # "locked"

C13_ListingIsRegistry ==
    [][\A p \in Clients :
         Lists(p) =>
           LET listing == resp'[p].listing
               listed == { listing[i].name : i \in DOMAIN listing }
           IN  /\ Finishes(p)
               /\ resp'[p].status = "ok"
               /\ listed = DOMAIN daps \ {main_name}
               /\ Len(listing) = Cardinality(listed)
               /\ \A i, j \in DOMAIN listing :
                     i < j => NameRank[listing[i].name] < NameRank[listing[j].name]
               /\ \A i \in DOMAIN listing :
                     /\ listing[i].enabled = daps[listing[i].name].enabled
                     /\ listing[i].enabled = pre.daps[listing[i].name].enabled]_vars

(* A listing taken after a successful update of n shows n's new flag. *)
C13_Witness ==
    \E p, q \in Clients :
      /\ Completed(p) /\ req[p].kind = "list"
      /\ Completed(q) /\ resp[q] = UpdatedResponse(Some(TRUE))
      /\ writes = 1 /\ pre.writes = 1
      /\ Len(resp[p].listing) = 2
      /\ \E i \in DOMAIN resp[p].listing :
            /\ resp[p].listing[i].name = req[q].dap_name
            /\ resp[p].listing[i].enabled
      /\ main_name \in DOMAIN daps

(***************************************************************************)
(* C14: the successful response of POST /dapla/dap reports exactly what    *)
(* changed: updated.enabled is present if and only if the request flipped  *)
(* the dap's enabled flag, and then carries the new value (the requested   *)
(* one); it is absent when the requested value equalled the current one or *)
(* no enabled field was sent.  Load or unload ran in the request if and    *)
(* only if updated.enabled is present.                                     *)
(***************************************************************************)
AnswersUpdateOk(p) ==
    Finishes(p) /\ req[p].kind = "update" /\ resp'[p].status = "ok"

EnabledOnDisk(n) ==
    disk[n].kind = "doc" /\ disk[n].doc.enabled = Some(TRUE)

C15_DiscoveryLoadsOnlyEnabled ==
    [][Discovers =>
         \A n \in Names :
           /\ Held(inst'[n]) =>
                 n \in DOMAIN daps' /\ daps'[n].enabled /\ EnabledOnDisk(n)
           /\ (n \in DOMAIN daps' /\ ~daps'[n].enabled) => inst'[n] = None
           /\ (n \in DOMAIN daps' /\ daps'[n] = DefaultSettings)
                 => inst'[n] = None]_vars

(* A discovery that loaded an enabled dap and left a disabled dap and a   *)
(* dap with default settings Unloaded.                                    *)
C15_Witness ==
    /\ started # {}
    /\ issued = 0
    /\ \E n, m \in DapNames :
         /\ n \in DOMAIN daps /\ daps[n].enabled /\ Held(inst[n])
         /\ m \in DOMAIN daps /\ ~daps[m].enabled /\ inst[m] = None
         /\ disk[m].kind = "doc"
    /\ daps[main_name] = DefaultSettings /\ inst[main_name] = None

(***************************************************************************)
(* C16: for every DapSettings value, saving it to the settings file and    *)
(* loading that file yields a value equal to the saved one field for       *)
(* field: the file of a saved dap loads without error to the value that    *)
(* was saved, and a dap that reloads its settings has the saved enabled,   *)
(* title, required and allowed permissions again (between a save and a     *)
(* reload only set_enabled changes the value in memory).                   *)
(***************************************************************************)
SameSettings(a, b) ==
    /\ a.enabled = b.enabled
    /\ a.title = b.title
    /\ a.required = b.required
    /\ a.allowed = b.allowed

UpdateInEffect(p) ==
    /\ Completed(p)
    /\ resp[p].status = "ok"
    /\ resp[p].updated # None
    /\ daps[req[p].dap_name].enabled = resp[p].updated[1]
    /\ Held(inst[req[p].dap_name]) = resp[p].updated[1]

C17_RediscoveryKeepsUpdates ==
    [][(Discovers /\ started # {}) =>
         /\ DOMAIN daps' = DOMAIN daps
         /\ \A p \in Clients :
               UpdateInEffect(p) =>
                 /\ daps'[req[p].dap_name].enabled = daps[req[p].dap_name].enabled
                 /\ inst'[req[p].dap_name] = inst[req[p].dap_name]]_vars

(***************************************************************************)
(* C18: an update request naming a dap that is not in the registry fails   *)
(* with NotFound, is answered with a failure response and changes nothing: *)
(* every dap's settings in memory, every settings file and every held      *)
(* instance are as they were when the request acquired the manager, no     *)
(* file is written and no load or unload runs.                             *)
(***************************************************************************)
LooksUpUnknown(p) ==
    /\ pc[p] = "locked"
    /\ req[p].kind = "update"
    /\ req[p].dap_name \notin DOMAIN daps
    /\ pc'[p] # "locked"

C18_UnknownDapChangesNothing ==
    [][\A p \in Clients :
         LooksUpUnknown(p) =>
           /\ Finishes(p)
           /\ resp'[p] = ErrorResponse("NotFound")
           /\ lock' = Free
           /\ daps' = pre.daps
           /\ disk' = pre.disk
           /\ inst' = pre.inst
           /\ nextInst' = pre.nextInst
           /\ writes' = pre.writes]_vars

C18_Witness ==
    \E p \in Clients :
      /\ Completed(p)
      /\ resp[p] = ErrorResponse("NotFound")
      /\ req[p].enabled = Some(TRUE)
      /\ req[p].dap_name \in DapNames \ DOMAIN daps
      /\ daps = pre.daps /\ inst = pre.inst /\ disk = pre.disk
      /\ Held(inst["alpha"])

(***************************************************************************)
(* C19: an update of dap n changes only n's enabled flag and n's held      *)
(* instance.  At every step of the update, whether it ends in success or   *)
(* in failure, the registry has the names it had when the request acquired *)
(* the manager, n's title and permission sets are unchanged, and every     *)
(* other dap's settings, settings file and held instance are unchanged.    *)
(***************************************************************************)
Updating(p) == pc[p] \in {"update", "save", "lifecycle"} /\ pc'[p] # pc[p]

C19_UpdateTouchesOnlyItsDap ==
    [][\A p \in Clients :
         Updating(p) =>
           LET n == req[p].dap_name
           IN  /\ DOMAIN daps' = DOMAIN pre.daps
               /\ daps'[n].title = pre.daps[n].title
               /\ daps'[n].required = pre.daps[n].required
               /\ daps'[n].allowed = pre.daps[n].allowed
               /\ \A m \in Names \ {n} :
                     /\ m \in DOMAIN daps' => daps'[m] = pre.daps[m]
                     /\ disk'[m] = pre.disk[m]
                     /\ inst'[m] = pre.inst[m]]_vars

(* A successful and a failed update of a titled dap, beside another dap   *)
(* that holds an instance.                                                *)
C19_Witness ==
    \E p, q \in Clients :
      /\ p # q
      /\ Completed(p) /\ resp[p] = UpdatedResponse(Some(TRUE))
      /\ Completed(q) /\ resp[q] = ErrorResponse("SettingsError")
      /\ req[p].dap_name = "alpha" /\ req[q].dap_name = "alpha"
      /\ daps["alpha"].title = AppTitle
      /\ daps["alpha"].required = {"fs"}
      /\ "beta" \in DOMAIN daps /\ Held(inst["beta"])
      /\ inst["beta"] = pre.inst["beta"]

(***************************************************************************)
(* C20: module instantiation is attempted only by a request that flips     *)
(* enabled from false to true.  The step of an enable request whose load   *)
(* fails leaves the dap enabled in memory and on disk with no instance; a  *)
(* later update(n, {enabled: true}) of the enabled dap reports no change   *)
(* and instantiates nothing; and once an enable request of n has failed to *)
(* load it and n is still enabled without an instance, n comes to hold an  *)
(* instance only by the load of a request that found n disabled and        *)
(* enabled it.                                                             *)
(***************************************************************************)
LoadFails(p) ==
    /\ pc[p] = "lifecycle"
    /\ daps[req[p].dap_name].enabled
    /\ Finishes(p)
    /\ nextInst' = nextInst

EnablesAgain(p) ==
    /\ pc[p] = "update"
    /\ req[p].enabled = Some(TRUE)
    /\ daps[req[p].dap_name].enabled
    /\ pc'[p] # "update"

StuckEnabled(n) ==
    /\ n \in DOMAIN daps
    /\ daps[n].enabled
    /\ ~Held(inst[n])
    /\ \E q \in Clients :
         /\ Completed(q)
         /\ req[q].dap_name = n
         /\ resp[q] = ErrorResponse("ModuleError")

LoadedByFlip(n) ==
    \E p \in Clients :
      /\ pc[p] = "lifecycle"
      /\ req[p].dap_name = n
      /\ req[p].enabled = Some(TRUE)
      /\ ~pre.daps[n].enabled

RequestsLoadOnFlipOnly ==
    \A p \in Clients :
      /\ LoadFails(p) =>
            LET n == req[p].dap_name
            IN  /\ resp'[p] = ErrorResponse("ModuleError")
                /\ daps'[n].enabled
                /\ disk'[n] = DocFile(SerializeSettings(daps'[n]))
                /\ inst'[n] = None
      /\ EnablesAgain(p) =>
            /\ Finishes(p)
            /\ resp'[p] = UpdatedResponse(None)
            /\ UNCHANGED <<daps, disk, inst, nextInst, writes>>
      /\ (pc[p] = "lifecycle" /\ pc'[p] # "lifecycle"
            /\ (nextInst' # nextInst \/ LoadFails(p)))
           => (req[p].enabled = Some(TRUE) /\ ~pre.daps[req[p].dap_name].enabled)

C20_LoadedAgainOnlyByFlip ==
    [][/\ RequestsLoadOnFlipOnly
       /\ \A n \in Names :
            (StuckEnabled(n) /\ Held(inst'[n])) => LoadedByFlip(n)]_vars

(* C20 for the steps of requests alone: what a load_daps run by a further *)
(* worker's factory does to the dap is left out.                          *)
C20_AmongRequests ==
    [][/\ RequestsLoadOnFlipOnly
       /\ \A n \in Names :
            (~Discovers /\ StuckEnabled(n) /\ Held(inst'[n]))
              => LoadedByFlip(n)]_vars

====
